---- MODULE Spec2Model ----
(***************************************************************************)
(* TokenInjectableDockerBuilder: the construct (src/src/index.ts), the      *)
(* Trigger Step (src/src/onEventHandler/index.js) and the Completion        *)
(* Poller (src/isComplete/isComplete.js, first handler; the historical     *)
(* variant is src/src/isCompleteHandler/index.js), run against a Job        *)
(* Runner (CodeBuild) and a Log Store (CloudWatch Logs).                    *)
(*                                                                         *)
(* Strings built by template literals are sequences of string tokens, so   *)
(* that "the message contains X" is a statement about its tokens.          *)
(***************************************************************************)
EXTENDS Integers, Sequences, FiniteSets, TLC

VARIABLES
    stack,      \* what the current construct instantiation synthesised
    nextUuid,   \* how many crypto.randomUUID() values were drawn so far
    builds,     \* the Job Runner's executions of the project, oldest first
    logOrder,   \* the order in which the Log Store returns the events of a page
    last,       \* the most recent handler invocation: event, result, remote calls
    workflow    \* the Orchestration Adapter's view of the deployment under way

vars == <<stack, nextUuid, builds, logOrder, last, workflow>>

----------------------------------------------------------------------------
(* Bounds of the model.                                                    *)

MaxInstantiations == 2
MaxBuilds == 1
MaxLogLines == 7
MaxPolls == 2
MaxBuildArgs == 2
MaxCommands == 2
PollBudget == 3
MaxEarlierBuilds == 1

(* Program constants.                                                      *)

LogLimit == 5

Undefined == "undefined"
ProjectName == "CodeBuildProject"
LogicalResourceId == "BuildTriggerResource"
PhysicalId == "physical-id"

----------------------------------------------------------------------------
(* Array helpers of the JavaScript runtime.                                *)

Reverse(s) == [i \in 1..Len(s) |-> s[Len(s) + 1 - i]]

RECURSIVE Join(_, _)
Join(parts, sep) ==
    IF Len(parts) = 0 THEN <<>>
    ELSE IF Len(parts) = 1 THEN parts[1]
    ELSE parts[1] \o <<sep>> \o Join(Tail(parts), sep)

Tokens(s) == {s[i] : i \in 1..Len(s)}

\* crypto.randomUUID(): the n-th value drawn; no two draws collide.
UuidPool == <<"uuid-1", "uuid-2", "uuid-3", "uuid-4", "uuid-5", "uuid-6",
              "uuid-7", "uuid-8", "uuid-9", "uuid-10">>
randomUUID(n) == UuidPool[n]

\* An optional value (a prop or a field that may be absent): <<>> or <<v>>.
None == <<>>
Some(v) == <<v>>
IsSome(o) == Len(o) = 1
OrElse(o, d) == IF IsSome(o) THEN o[1] ELSE d

----------------------------------------------------------------------------
(* The construct: src/src/index.ts, constructor.                           *)

\* The props of the construct's instantiation (those the build spec reads).
\* buildArgs is the list of the object's entries in insertion order; a key and
\* a value are strings, written as the sequence of their words and separators.
DefaultProps ==
    [buildArgs |-> Some(<< << <<"ENV">>, <<"test">> >> >>),
     dockerLoginSecretArn |-> None,
     installCommands |-> None,
     preBuildCommands |-> None]

SeqsUpTo(S, n) == UNION {[1..m -> S] : m \in 0..n}

\* The props a caller may pass: build arguments whose values are a word, the
\* empty string, a string with an equals sign or a string with a blank; lists
\* of custom commands; a secret ARN or none.
BuildArgKeys == {<<"ENV">>, <<"MSG">>}
BuildArgValues == {<<"test">>, <<>>, <<"a", "=", "b">>, <<"hello", " ", "world">>}
BuildArgsObjects ==
    {m \in SeqsUpTo(BuildArgKeys \X BuildArgValues, MaxBuildArgs) :
        \A i, j \in 1..Len(m) : i # j => m[i][1] # m[j][1]}
CustomCommands ==
    {<<"apt-get update -y">>, <<"curl -o config.json https://api.example.com/config">>}
CommandLists == SeqsUpTo(CustomCommands, MaxCommands)
SecretArns == {"arn:aws:secretsmanager:us-east-1:123456789012:secret:DockerLogin",
               "arn:aws:secretsmanager:us-east-1:123456789012:secret:DockerLoginSecret"}
Optional(S) == {None} \cup {Some(v) : v \in S}
PropsSet ==
    [buildArgs : Optional(BuildArgsObjects),
     dockerLoginSecretArn : Optional(SecretArns),
     installCommands : Optional(CommandLists),
     preBuildCommands : Optional(CommandLists)]

\* Mutant: the value of a build argument is left out of its flag.
buildArgsStringKeysOnly(buildArgs) ==
    IF IsSome(buildArgs)
    THEN Join([i \in 1..Len(buildArgs[1]) |->
                 <<"--build-arg", " ">> \o buildArgs[1][i][1] \o <<"=">>],
              " ")
    ELSE <<>>

\* Convert buildArgs to a CLI-friendly string.
buildArgsString(buildArgs) ==
    IF IsSome(buildArgs)
    THEN Join([i \in 1..Len(buildArgs[1]) |->
                 <<"--build-arg", " ">> \o buildArgs[1][i][1] \o <<"=">>
                     \o buildArgs[1][i][2]],
              " ")
    ELSE <<>>

\* Optional DockerHub login, if a secret ARN is provided.
dockerLoginCommands(dockerLoginSecretArn) ==
    IF IsSome(dockerLoginSecretArn)
    THEN << <<"echo \"Retrieving Docker credentials...\"">>,
            <<"apt-get update -y && apt-get install -y jq">>,
            <<"DOCKER_USERNAME=$(aws secretsmanager get-secret-value --secret-id ",
              dockerLoginSecretArn[1],
              " --query SecretString --output text | jq -r .username)">>,
            <<"DOCKER_PASSWORD=$(aws secretsmanager get-secret-value --secret-id ",
              dockerLoginSecretArn[1],
              " --query SecretString --output text | jq -r .password)">>,
            <<"echo \"Logging in to Docker Hub...\"">>,
            <<"echo $DOCKER_PASSWORD | docker login --username $DOCKER_USERNAME --password-stdin">> >>
    ELSE << <<"echo \"No Docker credentials. Skipping Docker Hub login.\"">> >>

ecrLoginCommands ==
    << <<"echo \"Retrieving AWS Account ID...\"">>,
       <<"export ACCOUNT_ID=$(aws sts get-caller-identity --query Account --output text)">>,
       <<"echo \"Logging into Amazon ECR...\"">>,
       <<"aws ecr get-login-password --region $AWS_DEFAULT_REGION | docker login --username AWS --password-stdin $ACCOUNT_ID.dkr.ecr.$AWS_DEFAULT_REGION.amazonaws.com">> >>

buildCommands(imageTag, argsString) ==
    << <<"echo \"Building Docker image with tag ", imageTag, "...\"">>,
       <<"docker build ">> \o argsString
           \o <<" -t $ECR_REPO_URI:", imageTag, " $CODEBUILD_SRC_DIR">> >>

postBuildCommands(imageTag) ==
    << <<"echo \"Pushing Docker image with tag ", imageTag, "...\"">>,
       <<"docker push $ECR_REPO_URI:", imageTag>> >>

\* Mutant: the registry logins come before the caller's pre-build commands.
buildSpecObjLoginFirst(props, imageTag) ==
    [install   |-> << <<"echo \"Beginning install phase...\"">> >>
                      \o OrElse(props.installCommands, <<>>),
     pre_build |-> dockerLoginCommands(props.dockerLoginSecretArn)
                      \o ecrLoginCommands
                      \o OrElse(props.preBuildCommands, <<>>),
     build     |-> buildCommands(imageTag, buildArgsString(props.buildArgs)),
     post_build |-> postBuildCommands(imageTag)]

buildSpecObj(props, imageTag) ==
    [install   |-> << <<"echo \"Beginning install phase...\"">> >>
                      \o OrElse(props.installCommands, <<>>),
     pre_build |-> OrElse(props.preBuildCommands, <<>>)
                      \o dockerLoginCommands(props.dockerLoginSecretArn)
                      \o ecrLoginCommands,
     build     |-> buildCommands(imageTag, buildArgsString(props.buildArgs)),
     post_build |-> postBuildCommands(imageTag)]

\* The statements the constructor adds to the policy of the CodeBuild role.
ecrPolicyStatement ==
    [actions |-> {"ecr:GetAuthorizationToken", "ecr:GetDownloadUrlForLayer",
                  "ecr:BatchCheckLayerAvailability"},
     resources |-> {"*"}]

secretPolicyStatement(resource) ==
    [actions |-> {"secretsmanager:GetSecretValue"}, resources |-> {resource}]

\* Mutant: the secret may be read whichever it is.
rolePolicyAnySecret(dockerLoginSecretArn) ==
    <<ecrPolicyStatement>>
        \o (IF IsSome(dockerLoginSecretArn)
            THEN <<secretPolicyStatement("*")>> ELSE <<>>)

rolePolicy(dockerLoginSecretArn) ==
    <<ecrPolicyStatement>>
        \o (IF IsSome(dockerLoginSecretArn)
            THEN <<secretPolicyStatement(dockerLoginSecretArn[1])>> ELSE <<>>)

\* Mutant: the function's environment names a floating tag.
isCompleteEnvironmentLatest(imageTag) == [IMAGE_TAG |-> "latest"]

\* The environment of the isComplete function.
isCompleteEnvironment(imageTag) == [IMAGE_TAG |-> imageTag]

\* The properties of the custom resource that triggers the build.
buildTriggerProperties(imageTag, trigger) ==
    [ProjectName |-> ProjectName, ImageTag |-> imageTag, Trigger |-> trigger]

\* A tag of an image reference: a literal, or an attribute of the custom
\* resource that is known once the resource is deployed.
Literal(value) == [kind |-> "literal", name |-> value]
getAttString(attributeName) == [kind |-> "GetAtt", name |-> attributeName]

\* Retrieve the final Docker image tag from Data.ImageTag.
imageTagRef == getAttString("ImageTag")

containerImage(tag) == [repository |-> "ECRRepository", tag |-> tag]

\* Mutant: the function's image is taken from the floating tag.
dockerImageCodeLatest(tag) == [repository |-> "ECRRepository", tagOrDigest |-> Literal("latest")]

dockerImageCode(tag) == [repository |-> "ECRRepository", tagOrDigest |-> tag]

\* One instantiation of the construct, n UUIDs having been drawn before it.
TokenInjectableDockerBuilder(props, n) ==
    LET imageTag == randomUUID(n + 1)
        trigger == randomUUID(n + 2)
    IN  [props |-> props,
         imageTag |-> imageTag,
         buildSpec |-> buildSpecObj(props, imageTag),
         rolePolicy |-> rolePolicy(props.dockerLoginSecretArn),
         environment |-> isCompleteEnvironment(imageTag),
         properties |-> buildTriggerProperties(imageTag, trigger),
         containerImage |-> containerImage(imageTagRef),
         dockerImageCode |-> dockerImageCode(imageTagRef)]

\* The tag a command of the build spec names after the repository URI.
RECURSIVE TagAfter(_, _)
TagAfter(command, marker) ==
    IF Len(command) < 2 THEN Undefined
    ELSE IF command[1] = marker THEN command[2]
    ELSE TagAfter(Tail(command), marker)

BuildTag(spec) == TagAfter(spec.build[Len(spec.build)], " -t $ECR_REPO_URI:")
PushTag(spec) == TagAfter(spec.post_build[Len(spec.post_build)], "docker push $ECR_REPO_URI:")

----------------------------------------------------------------------------
(* The Job Runner (CodeBuild) and the Log Store (CloudWatch Logs), as the   *)
(* handlers use them. A build's id is its index in builds.                 *)

InProgress == "IN_PROGRESS"
Succeeded == "SUCCEEDED"

\* The statuses a build starts in, and those it ends in. PENDING and FAULTED
\* are statuses of the ExecutionRecord that the handlers have no branch for.
NonTerminalStatuses == {"PENDING", InProgress}
TerminalStatuses == {Succeeded, "FAILED", "FAULT", "STOPPED", "TIMED_OUT", "FAULTED"}

\* build.logs: no location, a group without a stream, a group and a stream.
NoLogs == [groupName |-> Undefined, streamName |-> Undefined]
GroupOnly == [groupName |-> "/aws/codebuild/project", streamName |-> Undefined]
GroupAndStream == [groupName |-> "/aws/codebuild/project", streamName |-> "stream"]
LogsInfos == {NoLogs, GroupOnly, GroupAndStream}

\* The numbers of events a build's log stream may hold when the build ends.
LogSizes == {0, 3, MaxLogLines}

LogMessages == <<"log line 1", "log line 2", "log line 3", "log line 4", "log line 5",
                 "log line 6", "log line 7", "log line 8", "log line 9">>
LogMessage(i) == LogMessages[i]

\* The events of a stream that holds n of them, oldest first.
StreamEvents(n) == [i \in 1..n |-> [message |-> LogMessage(i), timestamp |-> i]]

\* StartBuildCommand: a new build of the project, its status chosen by the Job
\* Runner among the non-terminal ones.
StartBuild(jr, status) ==
    Append(jr, [buildStatus |-> status, logs |-> NoLogs, events |-> 0])

\* Mutant: the list lags behind: it does not yet hold the newest build.
ListBuildsForProjectStale(jr, sortOrder, maxResults) ==
    LET ids == [i \in 1..(Len(jr) - 1) |-> i]
        sorted == IF sortOrder = "DESCENDING" THEN Reverse(ids) ELSE ids
    IN  SubSeq(sorted, 1, IF Len(sorted) < maxResults THEN Len(sorted) ELSE maxResults)

\* ListBuildsForProjectCommand: the ids of the project's builds in sortOrder,
\* at most maxResults of them.
ListBuildsForProject(jr, sortOrder, maxResults) ==
    LET ids == [i \in 1..Len(jr) |-> i]
        sorted == IF sortOrder = "DESCENDING" THEN Reverse(ids) ELSE ids
    IN  SubSeq(sorted, 1, IF Len(sorted) < maxResults THEN Len(sorted) ELSE maxResults)

\* BatchGetBuildsCommand: the builds with the ids given.
BatchGetBuilds(jr, ids) == [i \in 1..Len(ids) |-> jr[ids[i]]]

\* GetLogEventsCommand: a page of at most limit events, taken from the head or
\* from the tail of the stream; the code does not fix the order in which the
\* service lists the events of the page, so both orders are modelled.
GetLogEvents(n, startFromHead, limit, order) ==
    LET all == StreamEvents(n)
        page == IF n <= limit THEN all
                ELSE IF startFromHead THEN SubSeq(all, 1, limit)
                ELSE SubSeq(all, n - limit + 1, n)
    IN  IF order = "newest-first" THEN Reverse(page) ELSE page

\* The message of the error the SDK raises when a call fails.
ServiceError(command) == <<"ServiceException: ", command, " failed">>

\* A remote call a handler made: the command, the parameters it was built
\* with and whether the service answered.
Call(command, params, ok) == [command |-> command, params |-> params, ok |-> ok]

\* The parameters of the commands the handlers build.
StartBuildParams(projectName) == [projectName |-> projectName]
ListBuildsParams(projectName) ==
    [projectName |-> projectName, sortOrder |-> "DESCENDING", maxResults |-> 1]
BatchGetBuildsParams(buildId) == [ids |-> <<buildId>>]
GetLogEventsParams(logsInfo) ==
    [logGroupName |-> logsInfo.groupName, logStreamName |-> logsInfo.streamName,
     startFromHead |-> FALSE, limit |-> LogLimit]

\* What the remote calls of a handler leave in the Job Runner.
RECURSIVE JobRunnerAfter(_, _, _)
JobRunnerAfter(jr, calls, status) ==
    IF Len(calls) = 0 THEN jr
    ELSE JobRunnerAfter(
             IF calls[1].command = "StartBuildCommand" /\ calls[1].ok
             THEN StartBuild(jr, status) ELSE jr,
             Tail(calls), status)

----------------------------------------------------------------------------
(* Results of a handler.                                                   *)

Return(isComplete, data) ==
    [kind |-> "return", IsComplete |-> isComplete, Data |-> data, message |-> <<>>]
Throw(message) ==
    [kind |-> "throw", IsComplete |-> FALSE, Data |-> None, message |-> message]
Out(result, calls) == [result |-> result, calls |-> calls]

----------------------------------------------------------------------------
(* The Completion Poller: src/isComplete/isComplete.js, first handler.     *)

\* The faults of the services during one poll: none, a call that fails, or a
\* BatchGetBuilds answer that holds no build.
PollFaults == {"none", "ListBuildsForProjectCommand", "BatchGetBuildsCommand",
               "NoBuildDetails", "GetLogEventsCommand"}

DeleteResult == Return(TRUE, None)

\* Mutant: a build in progress is reported complete.
InProgressResultComplete == Return(TRUE, None)

InProgressResult == Return(FALSE, None)

\* Mutant: the success result carries no data (as the historical poller's).
SucceededResultNoData(env) == Return(TRUE, None)

\* Mutant: a succeeded build is taken for one in progress.
SucceededResultPending(env) == Return(FALSE, None)

SucceededResult(env) == Return(TRUE, Some({<<"ImageTag", env.IMAGE_TAG>>}))

FailedStatuses == {"FAILED", "FAULT", "STOPPED", "TIMED_OUT"}

\* Mutant: a log group alone counts as a log location.
HasLogGroup(logsInfo) == logsInfo.groupName # Undefined

HasLogLocation(logsInfo) ==
    logsInfo.groupName # Undefined /\ logsInfo.streamName # Undefined

\* logEvents.map(e => e.message).reverse().join('\n')
lastFive(logEvents) ==
    Join(Reverse([i \in 1..Len(logEvents) |-> <<logEvents[i].message>>]), "\n")

FailedWithLogs(buildStatus, logEvents) ==
    Throw(<<"Build failed with status ", buildStatus, ". Last logs:\n">>
              \o lastFive(logEvents))

\* Mutant: a failed build that left no log is reported complete.
FailedNoLogsComplete(buildStatus) == Return(TRUE, None)

FailedNoLogs(buildStatus) ==
    Throw(<<"Build failed with status: ", buildStatus, ", but no logs found.">>)

\* Mutant: a status with no branch is taken for a build in progress.
UnknownStatusInProgress(buildStatus) == Return(FALSE, None)

UnknownStatus(buildStatus) == Throw(<<"Unknown build status: ", buildStatus>>)

\* Mutant: the poller starts the failed build again and asks for more time.
FailedBranchRetry(build, order, fault) ==
    Out(InProgressResult, <<Call("StartBuildCommand", StartBuildParams(ProjectName), TRUE)>>)

\* Mutant: a log fetch that fails is tried a second time.
FailedBranchRefetch(build, order, fault) ==
    IF HasLogLocation(build.logs)
    THEN IF fault = "GetLogEventsCommand"
         THEN Out(FailedWithLogs(build.buildStatus,
                                 GetLogEvents(build.events, FALSE, LogLimit, order)),
                  <<Call("GetLogEventsCommand", GetLogEventsParams(build.logs), FALSE),
                    Call("GetLogEventsCommand", GetLogEventsParams(build.logs), TRUE)>>)
         ELSE Out(FailedWithLogs(build.buildStatus,
                                 GetLogEvents(build.events, FALSE, LogLimit, order)),
                  <<Call("GetLogEventsCommand", GetLogEventsParams(build.logs), TRUE)>>)
    ELSE Out(FailedNoLogs(build.buildStatus), <<>>)

\* The failed branch: the last log lines when the build names its log stream.
FailedBranch(build, order, fault) ==
    IF HasLogLocation(build.logs)
    THEN IF fault = "GetLogEventsCommand"
         THEN Out(Throw(ServiceError("GetLogEventsCommand")),
                  <<Call("GetLogEventsCommand", GetLogEventsParams(build.logs), FALSE)>>)
         ELSE Out(FailedWithLogs(build.buildStatus,
                                 GetLogEvents(build.events, FALSE, LogLimit, order)),
                  <<Call("GetLogEventsCommand", GetLogEventsParams(build.logs), TRUE)>>)
    ELSE Out(FailedNoLogs(build.buildStatus), <<>>)

\* Mutant: every non-terminal status is taken for a build in progress.
StatusBranchNonTerminal(build, buildId, env, order, fault) ==
    IF build.buildStatus \in NonTerminalStatuses THEN Out(InProgressResult, <<>>)
    ELSE IF build.buildStatus = Succeeded THEN Out(SucceededResult(env), <<>>)
    ELSE IF build.buildStatus \in FailedStatuses
    THEN FailedBranch(build, order, fault)
    ELSE Out(UnknownStatus(build.buildStatus), <<>>)

\* Mutant: a build that failed is waited for as if it were in progress.
StatusBranchWaitsOnFailure(build, buildId, env, order, fault) ==
    IF build.buildStatus = InProgress THEN Out(InProgressResult, <<>>)
    ELSE IF build.buildStatus = Succeeded THEN Out(SucceededResult(env), <<>>)
    ELSE IF build.buildStatus \in FailedStatuses
    THEN Out(InProgressResult, <<>>)
    ELSE Out(UnknownStatus(build.buildStatus), <<>>)

\* The branches on the status of the build.
StatusBranch(build, buildId, env, order, fault) ==
    IF build.buildStatus = InProgress THEN Out(InProgressResult, <<>>)
    ELSE IF build.buildStatus = Succeeded THEN Out(SucceededResult(env), <<>>)
    ELSE IF build.buildStatus \in FailedStatuses
    THEN FailedBranch(build, order, fault)
    ELSE Out(UnknownStatus(build.buildStatus), <<>>)

\* Mutant: a project without builds is taken for one whose build is in progress.
LatestBuildOrWait(projectName, env, jr, order, fault) ==
    IF fault = "ListBuildsForProjectCommand"
    THEN Out(Throw(ServiceError("ListBuildsForProjectCommand")),
             <<Call("ListBuildsForProjectCommand", ListBuildsParams(projectName), FALSE)>>)
    ELSE
    LET ids == ListBuildsForProject(jr, "DESCENDING", 1)
        listed == <<Call("ListBuildsForProjectCommand", ListBuildsParams(projectName), TRUE)>>
    IN  IF Len(ids) = 0
        THEN Out(InProgressResult, listed)
        ELSE
        LET buildId == ids[1] IN
        IF fault = "BatchGetBuildsCommand"
        THEN Out(Throw(ServiceError("BatchGetBuildsCommand")),
                 listed \o <<Call("BatchGetBuildsCommand", BatchGetBuildsParams(buildId), FALSE)>>)
        ELSE
        LET found == IF fault = "NoBuildDetails" THEN <<>>
                     ELSE BatchGetBuilds(jr, <<buildId>>)
            got == listed \o <<Call("BatchGetBuildsCommand", BatchGetBuildsParams(buildId), TRUE)>>
        IN  IF Len(found) = 0
            THEN Out(Throw(<<"Build details not found for Build ID: ", ToString(buildId)>>),
                     got)
            ELSE LET branch == StatusBranch(found[1], buildId, env, order, fault)
                 IN  Out(branch.result, got \o branch.calls)

\* Mutant: the builds are listed oldest first.
LatestBuildOldest(projectName, env, jr, order, fault) ==
    IF fault = "ListBuildsForProjectCommand"
    THEN Out(Throw(ServiceError("ListBuildsForProjectCommand")),
             <<Call("ListBuildsForProjectCommand", ListBuildsParams(projectName), FALSE)>>)
    ELSE
    LET ids == ListBuildsForProject(jr, "ASCENDING", 1)
        listed == <<Call("ListBuildsForProjectCommand", ListBuildsParams(projectName), TRUE)>>
    IN  IF Len(ids) = 0
        THEN Out(Throw(<<"No builds found for project: ", projectName>>), listed)
        ELSE
        LET buildId == ids[1] IN
        IF fault = "BatchGetBuildsCommand"
        THEN Out(Throw(ServiceError("BatchGetBuildsCommand")),
                 listed \o <<Call("BatchGetBuildsCommand", BatchGetBuildsParams(buildId), FALSE)>>)
        ELSE
        LET found == IF fault = "NoBuildDetails" THEN <<>>
                     ELSE BatchGetBuilds(jr, <<buildId>>)
            got == listed \o <<Call("BatchGetBuildsCommand", BatchGetBuildsParams(buildId), TRUE)>>
        IN  IF Len(found) = 0
            THEN Out(Throw(<<"Build details not found for Build ID: ", ToString(buildId)>>),
                     got)
            ELSE LET branch == StatusBranch(found[1], buildId, env, order, fault)
                 IN  Out(branch.result, got \o branch.calls)

\* Steps 1 and 2: the latest build of the project and its details.
LatestBuild(projectName, env, jr, order, fault) ==
    IF fault = "ListBuildsForProjectCommand"
    THEN Out(Throw(ServiceError("ListBuildsForProjectCommand")),
             <<Call("ListBuildsForProjectCommand", ListBuildsParams(projectName), FALSE)>>)
    ELSE
    LET ids == ListBuildsForProject(jr, "DESCENDING", 1)
        listed == <<Call("ListBuildsForProjectCommand", ListBuildsParams(projectName), TRUE)>>
    IN  IF Len(ids) = 0
        THEN Out(Throw(<<"No builds found for project: ", projectName>>), listed)
        ELSE
        LET buildId == ids[1] IN
        IF fault = "BatchGetBuildsCommand"
        THEN Out(Throw(ServiceError("BatchGetBuildsCommand")),
                 listed \o <<Call("BatchGetBuildsCommand", BatchGetBuildsParams(buildId), FALSE)>>)
        ELSE
        LET found == IF fault = "NoBuildDetails" THEN <<>>
                     ELSE BatchGetBuilds(jr, <<buildId>>)
            got == listed \o <<Call("BatchGetBuildsCommand", BatchGetBuildsParams(buildId), TRUE)>>
        IN  IF Len(found) = 0
            THEN Out(Throw(<<"Build details not found for Build ID: ", ToString(buildId)>>),
                     got)
            ELSE LET branch == StatusBranch(found[1], buildId, env, order, fault)
                 IN  Out(branch.result, got \o branch.calls)

\* Mutant: no branch for Delete (as in the historical poller).
isCompleteNoDelete(event, env, jr, order, fault) ==
    LET projectName == event.ResourceProperties.ProjectName IN
    IF projectName = Undefined
    THEN Out(Throw(<<"Missing ProjectName in ResourceProperties">>), <<>>)
    ELSE LatestBuild(projectName, env, jr, order, fault)

isComplete(event, env, jr, order, fault) ==
    LET projectName == event.ResourceProperties.ProjectName IN
    IF projectName = Undefined
    THEN Out(Throw(<<"Missing ProjectName in ResourceProperties">>), <<>>)
    ELSE IF event.RequestType = "Delete"
    THEN Out(DeleteResult, <<>>)
    ELSE LatestBuild(projectName, env, jr, order, fault)

----------------------------------------------------------------------------
(* The historical Completion Poller: src/src/isCompleteHandler/index.js.   *)

HistoricalFailedBranch(build, order, fault) ==
    IF HasLogLocation(build.logs)
    THEN IF fault = "GetLogEventsCommand"
         THEN Out(Throw(ServiceError("GetLogEventsCommand")),
                  <<Call("GetLogEventsCommand", GetLogEventsParams(build.logs), FALSE)>>)
         ELSE Out(Throw(<<"Build failed with status: ", build.buildStatus,
                          "\nLast 5 build logs:\n">>
                        \o lastFive(GetLogEvents(build.events, FALSE, LogLimit, order))),
                  <<Call("GetLogEventsCommand", GetLogEventsParams(build.logs), TRUE)>>)
    ELSE Out(Throw(<<"Build failed with status: ", build.buildStatus,
                     ", but logs are not available.">>), <<>>)

HistoricalStatusBranch(build, buildId, order, fault) ==
    IF build.buildStatus = InProgress THEN Out(Return(FALSE, None), <<>>)
    ELSE IF build.buildStatus = Succeeded THEN Out(Return(TRUE, None), <<>>)
    ELSE IF build.buildStatus \in FailedStatuses
    THEN HistoricalFailedBranch(build, order, fault)
    ELSE Out(UnknownStatus(build.buildStatus), <<>>)

isCompleteHandler(event, jr, order, fault) ==
    LET projectName == event.ResourceProperties.ProjectName IN
    IF projectName = Undefined
    THEN Out(Throw(<<"ProjectName is required in ResourceProperties">>), <<>>)
    ELSE IF fault = "ListBuildsForProjectCommand"
    THEN Out(Throw(ServiceError("ListBuildsForProjectCommand")),
             <<Call("ListBuildsForProjectCommand", ListBuildsParams(projectName), FALSE)>>)
    ELSE
    LET buildIds == ListBuildsForProject(jr, "DESCENDING", 1)
        listed == <<Call("ListBuildsForProjectCommand", ListBuildsParams(projectName), TRUE)>>
    IN  IF Len(buildIds) = 0
        THEN Out(Throw(<<"No builds found for project: ", projectName>>), listed)
        ELSE
        LET buildId == buildIds[1] IN
        IF fault = "BatchGetBuildsCommand"
        THEN Out(Throw(ServiceError("BatchGetBuildsCommand")),
                 listed \o <<Call("BatchGetBuildsCommand", BatchGetBuildsParams(buildId), FALSE)>>)
        ELSE
        LET found == IF fault = "NoBuildDetails" THEN <<>>
                     ELSE BatchGetBuilds(jr, <<buildId>>)
            got == listed \o <<Call("BatchGetBuildsCommand", BatchGetBuildsParams(buildId), TRUE)>>
        IN  IF Len(found) = 0
            THEN Out(Throw(<<"Build details not found for Build ID: ", ToString(buildId)>>),
                     got)
            ELSE LET branch == HistoricalStatusBranch(found[1], buildId, order, fault)
                 IN  Out(branch.result, got \o branch.calls)

----------------------------------------------------------------------------
(* The Trigger Step: src/src/onEventHandler/index.js.                      *)

\* What the service may answer a start-execution call with instead of a build:
\* the job is not found, the caller is throttled, the caller lacks permission.
StartBuildErrors ==
    {"ResourceNotFoundException", "ThrottlingException", "AccessDeniedException"}

TriggerFaults == {"none"} \cup StartBuildErrors

\* Mutant: the identifier is always derived from the logical id.
physicalResourceIdLogical(event) == event.LogicalResourceId

\* event.PhysicalResourceId || event.LogicalResourceId
physicalResourceId(event) ==
    IF event.PhysicalResourceId # Undefined
    THEN event.PhysicalResourceId ELSE event.LogicalResourceId

TriggerResult(id, reason) ==
    [kind |-> "return", PhysicalResourceId |-> id, Data |-> Some({}), Reason |-> reason]

\* The start-execution call fails when the service refuses it, and when the
\* request names no project.
StartBuildFails(projectName, fault) ==
    fault \in StartBuildErrors \/ projectName = Undefined

\* error.message of the failure the call was rejected with.
StartBuildError(projectName, fault) ==
    IF projectName = Undefined
    THEN <<"InvalidInputException: ", "projectName", " is required">>
    ELSE <<fault, ": ", "StartBuildCommand", " failed">>

\* Mutant: a build is started whatever the request type.
onEventAnyRequestType(event, fault) ==
    Out(TriggerResult(physicalResourceId(event), None),
        <<Call("StartBuildCommand",
               StartBuildParams(event.ResourceProperties.ProjectName), TRUE)>>)

\* Mutant: the start-execution call is sent a second time when it failed.
onEventRetry(event, fault) ==
    IF event.RequestType \in {"Create", "Update"}
    THEN IF StartBuildFails(event.ResourceProperties.ProjectName, fault)
         THEN Out(TriggerResult(physicalResourceId(event),
                                Some(StartBuildError(event.ResourceProperties.ProjectName,
                                                     fault))),
                  <<Call("StartBuildCommand",
                         StartBuildParams(event.ResourceProperties.ProjectName), FALSE),
                    Call("StartBuildCommand",
                         StartBuildParams(event.ResourceProperties.ProjectName), FALSE)>>)
         ELSE Out(TriggerResult(physicalResourceId(event), None),
                  <<Call("StartBuildCommand",
                         StartBuildParams(event.ResourceProperties.ProjectName), TRUE)>>)
    ELSE Out(TriggerResult(physicalResourceId(event), None), <<>>)

\* Mutant: the failure of the start-execution call is thrown on.
onEventThrows(event, fault) ==
    IF event.RequestType \in {"Create", "Update"}
    THEN IF StartBuildFails(event.ResourceProperties.ProjectName, fault)
         THEN Out(Throw(StartBuildError(event.ResourceProperties.ProjectName, fault)),
                  <<Call("StartBuildCommand",
                         StartBuildParams(event.ResourceProperties.ProjectName), FALSE)>>)
         ELSE Out(TriggerResult(physicalResourceId(event), None),
                  <<Call("StartBuildCommand",
                         StartBuildParams(event.ResourceProperties.ProjectName), TRUE)>>)
    ELSE Out(TriggerResult(physicalResourceId(event), None), <<>>)

onEvent(event, fault) ==
    IF event.RequestType \in {"Create", "Update"}
    THEN IF StartBuildFails(event.ResourceProperties.ProjectName, fault)
         THEN Out(TriggerResult(physicalResourceId(event),
                                Some(StartBuildError(event.ResourceProperties.ProjectName,
                                                     fault))),
                  <<Call("StartBuildCommand",
                         StartBuildParams(event.ResourceProperties.ProjectName), FALSE)>>)
         ELSE Out(TriggerResult(physicalResourceId(event), None),
                  <<Call("StartBuildCommand",
                         StartBuildParams(event.ResourceProperties.ProjectName), TRUE)>>)
    ELSE Out(TriggerResult(physicalResourceId(event), None), <<>>)

----------------------------------------------------------------------------
(* The lifecycle events the Orchestration Adapter hands to the handlers.   *)

RequestTypes == {"Create", "Update", "Delete"}

Event(requestType, projectName, physicalId) ==
    [RequestType |-> requestType,
     ResourceProperties |-> [stack.properties EXCEPT !.ProjectName = projectName],
     PhysicalResourceId |-> physicalId,
     LogicalResourceId |-> LogicalResourceId]

\* A Create event carries no physical id yet; every later event carries one.
TriggerEvents ==
    {Event(t, p, IF t = "Create" THEN Undefined ELSE PhysicalId) :
        t \in RequestTypes, p \in {ProjectName, Undefined}}

\* The poller's event carries the physical id the Trigger Step returned.
PollEvents ==
    {Event(t, p, PhysicalId) : t \in RequestTypes, p \in {ProjectName, Undefined}}

NoEvent ==
    [RequestType |-> "none",
     ResourceProperties |-> [ProjectName |-> Undefined, ImageTag |-> Undefined,
                             Trigger |-> Undefined],
     PhysicalResourceId |-> Undefined,
     LogicalResourceId |-> Undefined]

NoInvocation ==
    [handler |-> "none", event |-> NoEvent,
     fault |-> "none", result |-> [kind |-> "none"], calls |-> <<>>, nth |-> 0]

\* The fault as far as the handler met it: the command it names was sent, and
\* with a project name (a request that names none is refused for that).
Met(fault, calls) ==
    LET command == IF fault = "NoBuildDetails" THEN "BatchGetBuildsCommand"
                   ELSE IF fault \in StartBuildErrors THEN "StartBuildCommand"
                   ELSE fault
    IN  IF \E i \in 1..Len(calls) :
               /\ calls[i].command = command
               /\ fault \in StartBuildErrors => calls[i].params.projectName # Undefined
        THEN fault ELSE "none"

\* The n-th poll in a row, counted up to MaxPolls; the Trigger Step is invoked
\* once per lifecycle event, so its invocations are not counted.
Nth(handler) ==
    IF handler # "onEvent" /\ last.handler = handler
    THEN (IF last.nth < MaxPolls THEN last.nth + 1 ELSE MaxPolls)
    ELSE 1

Invocation(handler, event, fault, out) ==
    [handler |-> handler, event |-> event, fault |-> Met(fault, out.calls),
     result |-> out.result, calls |-> out.calls, nth |-> Nth(handler)]

----------------------------------------------------------------------------
(* The Orchestration Adapter: the custom resource provider that invokes    *)
(* the two handlers for the BuildTriggerResource of a deployment.          *)

\* No deployment yet: nothing deployed, no resource, no handler invoked.
IdleWorkflow ==
    [phase |-> "idle", requestType |-> "none", deployed |-> None,
     physicalId |-> Undefined, startCalls |-> 0, started |-> 0, polls |-> <<>>,
     data |-> None, containerImage |-> Undefined, dockerImageCode |-> Undefined]

\* A synthesised template is submitted: a deployment begins. What the last
\* successful deployment left (the resource and its properties) is kept.
Submitted(w) ==
    [IdleWorkflow EXCEPT !.phase = "deploying", !.deployed = w.deployed,
                         !.physicalId = IF IsSome(w.deployed) THEN w.physicalId
                                        ELSE Undefined]

\* The value of an attribute in the data a resource reported.
Attribute(data, name) ==
    IF IsSome(data) /\ \E pair \in data[1] : pair[1] = name
    THEN (CHOOSE pair \in data[1] : pair[1] = name)[2]
    ELSE Undefined

\* The tag of an image reference once the resource has reported its data.
ResolveTag(tag, data) ==
    IF tag.kind = "literal" THEN tag.name ELSE Attribute(data, tag.name)

\* The data of the Trigger Step's and of the poller's result, put together.
MergeData(a, b) == Some(OrElse(a, {}) \cup OrElse(b, {}))

\* What one poll leaves in the adapter: the status the latest build had, and
\* whether the poller answered false, true or raised.
Answer(result) ==
    IF result.kind = "throw" THEN "throw"
    ELSE IF result.IsComplete THEN "true" ELSE "false"

Poll(jr, out, fault) ==
    [status |-> IF /\ \E i \in 1..Len(out.calls) :
                         out.calls[i].command = "BatchGetBuildsCommand" /\ out.calls[i].ok
                   /\ fault # "NoBuildDetails"
                THEN jr[Len(jr)].buildStatus ELSE "none",
     answer |-> Answer(out.result)]

\* The adapter's view after the Trigger Step returned or threw.
AfterOnEvent(w, requestType, out, started) ==
    IF out.result.kind = "throw"
    THEN [w EXCEPT !.phase = "failed", !.requestType = requestType,
                   !.startCalls = Len(out.calls)]
    ELSE [w EXCEPT !.phase = "polling", !.requestType = requestType,
                   !.physicalId = out.result.PhysicalResourceId,
                   !.startCalls = Len(out.calls), !.started = started,
                   !.data = out.result.Data]

\* The adapter's view after a poll: it polls again on IsComplete = false,
\* fails the deployment on a throw, and on IsComplete = true completes it,
\* the attributes of the resource being the data reported.
AfterIsComplete(w, st, jr, out, fault) ==
    LET polled == [w EXCEPT !.polls = Append(w.polls, Poll(jr, out, fault))]
    IN  IF out.result.kind = "throw" THEN [polled EXCEPT !.phase = "failed"]
        ELSE IF ~out.result.IsComplete THEN polled
        ELSE LET data == MergeData(w.data, out.result.Data)
             IN  [polled EXCEPT !.phase = "complete",
                                !.deployed = Some(st.properties),
                                !.data = data,
                                !.containerImage = ResolveTag(st.containerImage.tag, data),
                                !.dockerImageCode =
                                    ResolveTag(st.dockerImageCode.tagOrDigest, data)]

----------------------------------------------------------------------------
(* The state machine.                                                      *)

Init ==
    /\ stack = TokenInjectableDockerBuilder(DefaultProps, 0)
    /\ nextUuid = 2
    /\ builds = <<>>
    /\ logOrder \in {"oldest-first", "newest-first"}
    /\ last = NoInvocation
    /\ workflow = IdleWorkflow

\* The app is synthesised again for a redeploy: the constructor runs anew.
Constructor ==
    /\ nextUuid < 2 * MaxInstantiations
    /\ stack' = TokenInjectableDockerBuilder(stack.props, nextUuid)
    /\ nextUuid' = nextUuid + 2
    /\ last' = NoInvocation
    /\ UNCHANGED <<builds, logOrder, workflow>>

\* The Orchestration Adapter invokes the Trigger Step. The faults and the
\* Job Runner's choices are enumerated where the handler meets them.
OnEvent ==
    \E event \in TriggerEvents, fault \in TriggerFaults, status \in NonTerminalStatuses :
        LET out == onEvent(event, fault)
            after == JobRunnerAfter(builds, out.calls, status)
        IN  /\ Met(fault, out.calls) = fault
            /\ after = builds => status = InProgress
            /\ Len(after) <= MaxBuilds
            /\ builds' = after
            /\ last' = Invocation("onEvent", event, fault, out)
            /\ UNCHANGED <<stack, nextUuid, logOrder, workflow>>

\* Mutant: a warm container answers a repeated poll from what it remembers of
\* the poll before.
IsCompleteWarm ==
    \E event \in PollEvents, fault \in PollFaults :
        LET out == IF last.handler = "isComplete" THEN Out(last.result, <<>>)
                   ELSE isComplete(event, stack.environment, builds, logOrder, fault)
        IN  /\ Met(fault, out.calls) = fault
            /\ builds' = JobRunnerAfter(builds, out.calls, InProgress)
            /\ last' = Invocation("isComplete", event, fault, out)
            /\ UNCHANGED <<stack, nextUuid, logOrder, workflow>>

\* The Orchestration Adapter invokes the Completion Poller.
IsComplete ==
    \E event \in PollEvents, fault \in PollFaults :
        LET out == isComplete(event, stack.environment, builds, logOrder, fault)
        IN  /\ Met(fault, out.calls) = fault
            /\ builds' = JobRunnerAfter(builds, out.calls, InProgress)
            /\ last' = Invocation("isComplete", event, fault, out)
            /\ UNCHANGED <<stack, nextUuid, logOrder, workflow>>

\* The same, with the historical poller deployed.
IsCompleteHistorical ==
    \E event \in PollEvents, fault \in PollFaults :
        LET out == isCompleteHandler(event, builds, logOrder, fault)
        IN  /\ Met(fault, out.calls) = fault
            /\ builds' = JobRunnerAfter(builds, out.calls, InProgress)
            /\ last' = Invocation("isCompleteHandler", event, fault, out)
            /\ UNCHANGED <<stack, nextUuid, logOrder, workflow>>

\* The Job Runner moves a pending build on.
JobRunnerStarts ==
    \E i \in 1..Len(builds) :
        /\ builds[i].buildStatus = "PENDING"
        /\ builds' = [builds EXCEPT ![i].buildStatus = InProgress]
        /\ last' = NoInvocation
        /\ UNCHANGED <<stack, nextUuid, logOrder, workflow>>

\* The log a build leaves when it ends: where it is, and how many events it
\* holds. They vary for the statuses whose log the pollers read.
LogOutcomes(status) ==
    IF status \in FailedStatuses
    THEN {[logs |-> NoLogs, events |-> 0], [logs |-> GroupOnly, events |-> 0]}
             \cup {[logs |-> GroupAndStream, events |-> n] : n \in LogSizes}
    ELSE {[logs |-> GroupAndStream, events |-> MaxLogLines]}

\* The Job Runner ends a build.
JobRunnerEnds ==
    \E i \in 1..Len(builds), status \in TerminalStatuses :
        \E log \in LogOutcomes(status) :
            /\ builds[i].buildStatus = InProgress
            /\ builds' = [builds EXCEPT ![i] =
                             [buildStatus |-> status, logs |-> log.logs,
                              events |-> log.events]]
            /\ last' = NoInvocation
            /\ UNCHANGED <<stack, nextUuid, logOrder, workflow>>

Next ==
    \/ Constructor
    \/ OnEvent
    \/ IsComplete
    \/ JobRunnerStarts
    \/ JobRunnerEnds

Spec == Init /\ [][Next]_vars

\* The same system with the historical poller deployed in place of the current.
NextHistorical ==
    \/ Constructor
    \/ OnEvent
    \/ IsCompleteHistorical
    \/ JobRunnerStarts
    \/ JobRunnerEnds

SpecHistorical == Init /\ [][NextHistorical]_vars

\* The construct alone, instantiated with any props and synthesised again with
\* the same props.
InitSynth ==
    /\ \E props \in PropsSet : stack = TokenInjectableDockerBuilder(props, 0)
    /\ nextUuid = 2
    /\ builds = <<>>
    /\ logOrder = "oldest-first"
    /\ last = NoInvocation
    /\ workflow = IdleWorkflow

SpecSynth == InitSynth /\ [][Constructor]_vars

\* The deployments of the construct, one after the other, each driven by the
\* Orchestration Adapter: the template of the first instantiation is submitted.
InitWorkflow ==
    /\ stack = TokenInjectableDockerBuilder(DefaultProps, 0)
    /\ nextUuid = 2
    /\ builds = <<>>
    /\ logOrder \in {"oldest-first", "newest-first"}
    /\ last = NoInvocation
    /\ workflow = Submitted(IdleWorkflow)

\* A redeploy, or the retry of a failed deployment: the app is synthesised
\* again and its template submitted.
Deploy ==
    /\ workflow.phase \in {"complete", "failed"}
    /\ nextUuid < 2 * MaxInstantiations
    /\ stack' = TokenInjectableDockerBuilder(stack.props, nextUuid)
    /\ nextUuid' = nextUuid + 2
    /\ last' = NoInvocation
    /\ workflow' = Submitted(workflow)
    /\ UNCHANGED <<builds, logOrder>>

\* The adapter compares the resource's properties with those deployed: when
\* they differ it invokes the Trigger Step, with Create for a new resource and
\* Update for an existing one; when they do not, the resource is left alone.
AdapterOnEvent ==
    /\ workflow.phase = "deploying"
    /\ IF workflow.deployed = Some(stack.properties)
       THEN /\ workflow' = [workflow EXCEPT !.phase = "complete"]
            /\ UNCHANGED <<stack, nextUuid, builds, logOrder, last>>
       ELSE \E fault \in TriggerFaults, status \in NonTerminalStatuses :
               LET requestType == IF IsSome(workflow.deployed) THEN "Update" ELSE "Create"
                   event == Event(requestType, ProjectName, workflow.physicalId)
                   out == onEvent(event, fault)
                   after == JobRunnerAfter(builds, out.calls, status)
               IN  /\ Met(fault, out.calls) = fault
                   /\ after = builds => status = InProgress
                   /\ Len(after) <= MaxBuilds
                   /\ builds' = after
                   /\ last' = Invocation("onEvent", event, fault, out)
                   /\ workflow' = AfterOnEvent(workflow, requestType, out,
                                               Len(after) - Len(builds))
                   /\ UNCHANGED <<stack, nextUuid, logOrder>>

\* The adapter polls, every queryInterval, while its budget of polls lasts.
AdapterIsComplete ==
    /\ workflow.phase = "polling"
    /\ Len(workflow.polls) < PollBudget
    /\ \E fault \in PollFaults :
           LET event == Event(workflow.requestType, ProjectName, workflow.physicalId)
               out == isComplete(event, stack.environment, builds, logOrder, fault)
           IN  /\ Met(fault, out.calls) = fault
               /\ builds' = JobRunnerAfter(builds, out.calls, InProgress)
               /\ last' = Invocation("isComplete", event, fault, out)
               /\ workflow' = AfterIsComplete(workflow, stack, builds, out, fault)
               /\ UNCHANGED <<stack, nextUuid, logOrder>>

\* The budget is spent: the adapter gives the deployment up.
AdapterTimeout ==
    /\ workflow.phase = "polling"
    /\ Len(workflow.polls) = PollBudget
    /\ workflow' = [workflow EXCEPT !.phase = "failed"]
    /\ last' = NoInvocation
    /\ UNCHANGED <<stack, nextUuid, builds, logOrder>>

NextWorkflow ==
    \/ Deploy
    \/ AdapterOnEvent
    \/ AdapterIsComplete
    \/ AdapterTimeout
    \/ JobRunnerStarts
    \/ JobRunnerEnds

SpecWorkflow == InitWorkflow /\ [][NextWorkflow]_vars

\* The two variants of the Completion Poller before any history of the job: the
\* records of the builds a project may hold, a status each and, for a build
\* that has ended, the log it left.
BuildRecords ==
    {[buildStatus |-> status, logs |-> NoLogs, events |-> 0] :
         status \in NonTerminalStatuses}
        \cup UNION {{[buildStatus |-> status, logs |-> log.logs, events |-> log.events] :
                        log \in LogOutcomes(status)} : status \in TerminalStatuses}

\* The builds the project holds from before: the poller does not look at
\* them, so three kinds stand for all.
EarlierRecords ==
    {[buildStatus |-> InProgress, logs |-> NoLogs, events |-> 0],
     [buildStatus |-> Succeeded, logs |-> GroupAndStream, events |-> MaxLogLines],
     [buildStatus |-> "FAILED", logs |-> GroupAndStream, events |-> 3]}

\* No build at all, or a most recent build after up to MaxEarlierBuilds others.
JobRunnerStates ==
    {<<>>} \cup {earlier \o <<build>> :
                    earlier \in SeqsUpTo(EarlierRecords, MaxEarlierBuilds),
                    build \in BuildRecords}

InitVariants ==
    /\ stack = TokenInjectableDockerBuilder(DefaultProps, 0)
    /\ nextUuid = 2
    /\ builds \in JobRunnerStates
    /\ logOrder \in {"oldest-first", "newest-first"}
    /\ last = NoInvocation
    /\ workflow = IdleWorkflow

NextVariants ==
    \/ IsComplete
    \/ IsCompleteHistorical

SpecVariants == InitVariants /\ [][NextVariants]_vars

\* The adapter with no limit on its polls: it polls every queryInterval for as
\* long as the poller answers IsComplete = false. The polls of a deployment
\* are kept in rounds of PollBudget: a poll beyond a full round begins the
\* next round.
LastPolls(polls) ==
    IF Len(polls) > PollBudget THEN <<polls[Len(polls)]>> ELSE polls

AdapterKeepsPolling ==
    /\ workflow.phase = "polling"
    /\ \E fault \in PollFaults :
           LET event == Event(workflow.requestType, ProjectName, workflow.physicalId)
               out == isComplete(event, stack.environment, builds, logOrder, fault)
               after == AfterIsComplete(workflow, stack, builds, out, fault)
           IN  /\ Met(fault, out.calls) = fault
               /\ builds' = JobRunnerAfter(builds, out.calls, InProgress)
               /\ last' = Invocation("isComplete", event, fault, out)
               /\ workflow' = [after EXCEPT !.polls = LastPolls(after.polls)]
               /\ UNCHANGED <<stack, nextUuid, logOrder>>

NextPolling ==
    \/ Deploy
    \/ AdapterOnEvent
    \/ AdapterKeepsPolling
    \/ JobRunnerStarts
    \/ JobRunnerEnds

\* Weak fairness of the adapter's polls: a poll is enabled exactly while the
\* deployment is in its polling phase, so the enabling condition is written
\* out as that phase. Every poll is a step: it adds to the round of polls.
PollingFairness ==
    []<>(workflow.phase # "polling") \/ []<><<AdapterKeepsPolling>>_vars

\* The adapter keeps polling and the Job Runner carries every execution on to
\* its end.
SpecPolling ==
    /\ InitWorkflow
    /\ [][NextPolling]_vars
    /\ PollingFairness
    /\ WF_vars(JobRunnerStarts)
    /\ WF_vars(JobRunnerEnds)

----------------------------------------------------------------------------
(* What the claims speak of.                                               *)

\* The most recent execution of the job.
HasBuild == Len(builds) > 0
Latest == builds[Len(builds)]

\* The last invocation was a poll on Create or Update that carried the job
\* identifier and whose remote calls were all answered.
Polled ==
    /\ last.handler = "isComplete"
    /\ last.event.RequestType \in {"Create", "Update"}
    /\ last.event.ResourceProperties.ProjectName # Undefined
    /\ last.fault = "none"

PolledStatus(status) == Polled /\ HasBuild /\ Latest.buildStatus = status

\* The log lines a message holds, in the order it holds them.
IsLogLine(token) == \E i \in 1..Len(LogMessages) : token = LogMessages[i]
LogLinesOf(message) == SelectSeq(message, IsLogLine)

Sent(command) == \E i \in 1..Len(last.calls) : last.calls[i].command = command

----------------------------------------------------------------------------
(* C1: on Create or Update, when the most recent execution is SUCCEEDED    *)
(* (and the Job Runner answers the poll), the poller returns IsComplete =  *)
(* true with Data.ImageTag the imageTag fixed at construct instantiation;  *)
(* the first poll and every repeated poll give this same result.           *)
C1_SucceededReportsFixedTag ==
    PolledStatus(Succeeded) =>
        last.result = Return(TRUE, Some({<<"ImageTag", stack.imageTag>>}))

\* A repeated poll of a succeeded build, after the construct was instantiated anew.
C1_Witness ==
    /\ PolledStatus(Succeeded)
    /\ last.nth >= 2
    /\ nextUuid > 2
    /\ last.result.IsComplete
    /\ last.result.Data = Some({<<"ImageTag", stack.imageTag>>})

(* C2: within one instantiation the imageTag is drawn once and the same    *)
(* value is in the build command (docker build -t), the push command, the  *)
(* poller's IMAGE_TAG and the custom resource's ImageTag property; no      *)
(* Trigger or Poll call changes what was synthesised.                      *)
C2_SameTagEverywhere ==
    /\ stack.imageTag = randomUUID(nextUuid - 1)
    /\ BuildTag(stack.buildSpec) = stack.imageTag
    /\ PushTag(stack.buildSpec) = stack.imageTag
    /\ stack.environment.IMAGE_TAG = stack.imageTag
    /\ stack.properties.ImageTag = stack.imageTag
    /\ stack.properties.Trigger # stack.imageTag

C2_NotRegenerated ==
    last'.handler \in {"onEvent", "isComplete"} => stack' = stack /\ nextUuid' = nextUuid

C2_OneImageTag == []C2_SameTagEverywhere /\ [][C2_NotRegenerated]_vars

\* A poll after a trigger of the second instantiation reports the tag its
\* build and push commands name.
C2_Witness ==
    /\ nextUuid = 4
    /\ PolledStatus(Succeeded)
    /\ last.result.Data = Some({<<"ImageTag", PushTag(stack.buildSpec)>>})
    /\ BuildTag(stack.buildSpec) = "uuid-3"

(* C3: every one of any number of consecutive polls made while the most    *)
(* recent execution is IN_PROGRESS returns IsComplete = false with no data *)
(* and does not raise.                                                     *)
C3_InProgressNeverCompletes ==
    PolledStatus(InProgress) => last.result = Return(FALSE, None)

\* The second (or a later) consecutive poll of a build in progress.
C3_Witness ==
    /\ PolledStatus(InProgress)
    /\ last.nth = MaxPolls
    /\ last.result.kind = "return"
    /\ ~last.result.IsComplete

(* C4: a poll is a pure read: whatever the request type and the status, it *)
(* sends the Job Runner and the Log Store only read commands and leaves    *)
(* the executions and their statuses as they were.                         *)
ReadCommands ==
    {"ListBuildsForProjectCommand", "BatchGetBuildsCommand", "GetLogEventsCommand"}

C4_PollStep ==
    last'.handler = "isComplete" =>
        /\ builds' = builds
        /\ \A i \in 1..Len(last'.calls) : last'.calls[i].command \in ReadCommands

C4_PollIsPureRead == [][C4_PollStep]_vars

\* A repeated poll that listed the builds, fetched the latest and read its log.
C4_Witness ==
    /\ last.handler = "isComplete"
    /\ last.nth = MaxPolls
    /\ HasBuild
    /\ Sent("ListBuildsForProjectCommand")
    /\ Sent("BatchGetBuildsCommand")
    /\ Sent("GetLogEventsCommand")

(* C5: when the most recent execution is FAILED and its log stream holds   *)
(* more than 5 entries, the poller raises an error whose message holds     *)
(* exactly the last 5 log lines, oldest to newest, and no earlier line.    *)
C5_LastFiveChronological ==
    (PolledStatus("FAILED") /\ Latest.logs = GroupAndStream /\ Latest.events > LogLimit) =>
        /\ last.result.kind = "throw"
        /\ LogLinesOf(last.result.message) =
               [i \in 1..LogLimit |-> LogMessage(Latest.events - LogLimit + i)]

(* C6: when the most recent execution has a failure status and its record  *)
(* names no log group or no log stream, the poller raises an error whose   *)
(* message holds the status and no log line, and sends no Log Store call.  *)
LogLocationMissing ==
    Latest.logs.groupName = Undefined \/ Latest.logs.streamName = Undefined

C6_NoLogLocationStatusOnly ==
    \A status \in {"FAILED", "FAULT", "STOPPED", "TIMED_OUT"} :
        (PolledStatus(status) /\ LogLocationMissing) =>
            /\ last.result.kind = "throw"
            /\ status \in Tokens(last.result.message)
            /\ LogLinesOf(last.result.message) = <<>>
            /\ ~Sent("GetLogEventsCommand")

\* A timed-out build whose record names a log group and no stream.
C6_Witness ==
    /\ PolledStatus("TIMED_OUT")
    /\ Latest.logs = GroupOnly
    /\ last.result.kind = "throw"
    /\ last.result.message = <<"Build failed with status: ", "TIMED_OUT", ", but no logs found.">>

(* C7: when the most recent execution has a failure status, its log        *)
(* location is present and the Log Store fetch fails, the poller still     *)
(* raises an error that states the build's failure status.                 *)
C7_LogFetchFailureKeepsStatus ==
    (last.handler = "isComplete" /\ last.fault = "GetLogEventsCommand") =>
        /\ last.result.kind = "throw"
        /\ Latest.buildStatus \in Tokens(last.result.message)

(* C8: for a status that is none of the recognized ones the poller raises  *)
(* an error that holds the literal status; it returns neither IsComplete = *)
(* true nor IsComplete = false.                                            *)
RecognizedStatuses ==
    {"IN_PROGRESS", "SUCCEEDED", "FAILED", "FAULT", "STOPPED", "TIMED_OUT"}

C8_UnknownStatusRaises ==
    (Polled /\ HasBuild /\ Latest.buildStatus \notin RecognizedStatuses) =>
        /\ last.result.kind = "throw"
        /\ Latest.buildStatus \in Tokens(last.result.message)
        /\ ~Sent("GetLogEventsCommand")

\* A build that ended FAULTED, a status the poller has no branch for.
C8_Witness ==
    /\ PolledStatus("FAULTED")
    /\ last.result.kind = "throw"
    /\ last.result.message = <<"Unknown build status: ", "FAULTED">>

(* C9, as claimed: for every non-terminal status, PENDING as well as       *)
(* IN_PROGRESS, the poller returns IsComplete = false with no data and     *)
(* does not raise.                                                         *)
C9_NonTerminalNotComplete ==
    \A status \in {"PENDING", "IN_PROGRESS"} :
        PolledStatus(status) => last.result = Return(FALSE, None)

(* C9, amended: IN_PROGRESS is the only non-terminal status the poller     *)
(* knows: for it the poller returns IsComplete = false with no data and    *)
(* does not raise; for PENDING it raises the unknown-status error that     *)
(* names PENDING.                                                          *)
C9_OnlyInProgressPollsAgain ==
    /\ PolledStatus("IN_PROGRESS") =>
           last.result.kind = "return" /\ ~last.result.IsComplete /\ last.result.Data = None
    /\ PolledStatus("PENDING") =>
           last.result = Throw(<<"Unknown build status: ", "PENDING">>)

\* A pending build, polled: the poll raises.
C9_Witness ==
    /\ PolledStatus("PENDING")
    /\ last.result.kind = "throw"

----------------------------------------------------------------------------
(* The Trigger Step's invocations.                                         *)

Triggered(requestTypes) ==
    last.handler = "onEvent" /\ last.event.RequestType \in requestTypes

\* The identifier the event gives the Trigger Step.
GivenId(event) ==
    IF event.PhysicalResourceId # Undefined
    THEN event.PhysicalResourceId ELSE event.LogicalResourceId

(* C11: a Trigger Step invocation with a Delete request sends no call to   *)
(* the Job Runner, creates no execution and returns the event's resource   *)
(* identifier as it came.                                                  *)
C11_DeleteStep ==
    (last'.handler = "onEvent" /\ last'.event.RequestType = "Delete") =>
        /\ last'.calls = <<>>
        /\ builds' = builds
        /\ last'.result.kind = "return"
        /\ last'.result.PhysicalResourceId = last'.event.PhysicalResourceId

C11_TriggerDeleteNoCalls == [][C11_DeleteStep]_vars

\* A Delete request handled while the job has an execution in progress.
C11_Witness ==
    /\ Triggered({"Delete"})
    /\ HasBuild
    /\ Latest.buildStatus = InProgress
    /\ last.calls = <<>>
    /\ last.result.PhysicalResourceId = PhysicalId

(* C12: a Trigger Step invocation with a Create or Update request sends    *)
(* exactly one start-execution call, built from the event's job identifier *)
(* and nothing else, and returns while the execution has reached no final  *)
(* status; when the call succeeds the Job Runner holds exactly one         *)
(* execution more, the earlier ones being as they were.                    *)
C12_CreateUpdateStep ==
    (last'.handler = "onEvent" /\ last'.event.RequestType \in {"Create", "Update"}) =>
        /\ Len(last'.calls) = 1
        /\ last'.calls[1].command = "StartBuildCommand"
        /\ last'.calls[1].params =
               [projectName |-> last'.event.ResourceProperties.ProjectName]
        /\ last'.result.kind = "return"
        /\ last'.calls[1].ok =>
               /\ Len(builds') = Len(builds) + 1
               /\ SubSeq(builds', 1, Len(builds)) = builds
               /\ builds'[Len(builds')].buildStatus \in {"PENDING", "IN_PROGRESS"}

C12_TriggerStartsOneBuild == [][C12_CreateUpdateStep]_vars

\* An Update request started the job's build, which is still pending.
C12_Witness ==
    /\ Triggered({"Update"})
    /\ last.calls = <<Call("StartBuildCommand", [projectName |-> ProjectName], TRUE)>>
    /\ Len(builds) = 1
    /\ Latest.buildStatus = "PENDING"

(* C13: whatever the request type and whatever the outcome of the          *)
(* start-execution call, the Trigger Step returns the identifier it was    *)
(* given (the event's PhysicalResourceId when it has one, else the one     *)
(* derived from LogicalResourceId) and an empty data payload.              *)
C13_SameIdEmptyData ==
    last.handler = "onEvent" =>
        /\ last.result.kind = "return"
        /\ last.result.PhysicalResourceId = GivenId(last.event)
        /\ last.result.Data = Some({})

\* An Update request whose start-execution call failed: the id is returned.
C13_Witness ==
    /\ Triggered({"Update"})
    /\ last.fault = "ThrottlingException"
    /\ last.event.PhysicalResourceId = PhysicalId
    /\ last.result.PhysicalResourceId = PhysicalId
    /\ last.result.Data = Some({})

(* C14: when the start-execution call fails on Create or Update the        *)
(* Trigger Step does not throw: it returns the identifier it was given and *)
(* a Reason equal to the failure's message, and the Job Runner holds no    *)
(* new execution.                                                          *)
C14_FailedStartStep ==
    (/\ last'.handler = "onEvent"
     /\ last'.event.RequestType \in {"Create", "Update"}
     /\ \E i \in 1..Len(last'.calls) : ~last'.calls[i].ok) =>
        /\ last'.result.kind = "return"
        /\ last'.result.PhysicalResourceId = GivenId(last'.event)
        /\ last'.result.Reason =
               Some(IF last'.fault = "none"
                    THEN <<"InvalidInputException: ", "projectName", " is required">>
                    ELSE <<last'.fault, ": ", "StartBuildCommand", " failed">>)
        /\ builds' = builds

C14_FailedStartReturnsReason == [][C14_FailedStartStep]_vars

\* A Create request whose start-execution call the service refused.
C14_Witness ==
    /\ Triggered({"Create"})
    /\ last.fault = "ResourceNotFoundException"
    /\ last.event.ResourceProperties.ProjectName = ProjectName
    /\ last.result.PhysicalResourceId = LogicalResourceId
    /\ IsSome(last.result.Reason)
    /\ ~HasBuild

(* C20: on Create or Update, when the Job Runner answers the list call     *)
(* with no execution of the job, the poller raises the no-execution-found  *)
(* error: it returns neither IsComplete = false nor IsComplete = true and  *)
(* does not fetch execution details.                                       *)
C20_NoExecutionRaises ==
    (Polled /\ ~HasBuild) =>
        /\ last.result = Throw(<<"No builds found for project: ",
                                 last.event.ResourceProperties.ProjectName>>)
        /\ Sent("ListBuildsForProjectCommand")
        /\ ~Sent("BatchGetBuildsCommand")
        /\ ~Sent("GetLogEventsCommand")

\* A poll on Create right after a Trigger Step whose start-execution call was
\* refused, so that the job has no execution.
C20_Witness ==
    /\ Polled
    /\ ~HasBuild
    /\ last.event.RequestType = "Create"
    /\ last.result.kind = "throw"
    /\ last.calls = <<Call("ListBuildsForProjectCommand",
                           [projectName |-> ProjectName, sortOrder |-> "DESCENDING",
                            maxResults |-> 1], TRUE)>>

----------------------------------------------------------------------------
(* The build spec as the Job Runner reads it.                              *)

\* The flags the docker build command holds between "docker build " and the
\* tag option.
BuildFlags(spec) ==
    LET command == spec.build[Len(spec.build)]
    IN  SubSeq(command, 2, Len(command) - 3)

\* The index of the first token of s that is t; Len(s) + 1 when there is none.
FirstIndex(s, t) ==
    IF \E i \in 1..Len(s) : s[i] = t
    THEN CHOOSE i \in 1..Len(s) : s[i] = t /\ \A j \in 1..(i - 1) : s[j] # t
    ELSE Len(s) + 1

\* The shell splits a command line into words at blanks.
RECURSIVE SplitWords(_)
SplitWords(s) ==
    IF Len(s) = 0 THEN <<>>
    ELSE IF s[1] = " " THEN SplitWords(Tail(s))
    ELSE LET blank == FirstIndex(s, " ")
         IN  <<SubSeq(s, 1, blank - 1)>> \o SplitWords(SubSeq(s, blank, Len(s)))

\* docker build reads the words: --build-arg takes the next word, KEY=VALUE cut
\* at its first equals sign; any other word is not a build argument.
RECURSIVE ParseBuildArgs(_)
ParseBuildArgs(words) ==
    IF Len(words) = 0 THEN [args |-> {}, others |-> <<>>]
    ELSE IF words[1] = <<"--build-arg">> /\ Len(words) >= 2
    THEN LET word == words[2]
             eq == FirstIndex(word, "=")
             rest == ParseBuildArgs(SubSeq(words, 3, Len(words)))
         IN  [args |-> {<<SubSeq(word, 1, eq - 1), SubSeq(word, eq + 1, Len(word))>>}
                           \cup rest.args,
              others |-> rest.others]
    ELSE LET rest == ParseBuildArgs(Tail(words))
         IN  [args |-> rest.args, others |-> <<words[1]>> \o rest.others]

\* The entries of the buildArgs the construct was given (none when absent).
GivenBuildArgs == OrElse(stack.props.buildArgs, <<>>)

(* C18: for every buildArgs object, the empty and the absent one included, *)
(* the flag string of the build command holds exactly one --build-arg      *)
(* KEY=VALUE per entry and nothing else, and read back it gives the        *)
(* entries of the object, whatever the order they were inserted in.        *)
C18_BuildArgsRoundTrip ==
    LET flags == BuildFlags(stack.buildSpec)
        parsed == ParseBuildArgs(SplitWords(flags))
    IN  /\ Cardinality({i \in 1..Len(flags) : flags[i] = "--build-arg"})
               = Len(GivenBuildArgs)
        /\ parsed.others = <<>>
        /\ parsed.args = {GivenBuildArgs[i] : i \in 1..Len(GivenBuildArgs)}

(* C19: the build spec keeps the order of phases and commands: install     *)
(* holds the caller's installCommands in their order; pre_build holds the  *)
(* caller's preBuildCommands in their order, then the registry-login       *)
(* commands, then the ECR login; the docker build command comes after all  *)
(* of pre_build, the push is in post_build only, and it names the tag of   *)
(* the build.                                                              *)
Script(spec) == spec.install \o spec.pre_build \o spec.build \o spec.post_build

IsPush(command) == Len(command) > 0 /\ command[1] = "docker push $ECR_REPO_URI:"
IsBuild(command) == Len(command) > 0 /\ command[1] = "docker build "
IsDockerHubLogin(command) ==
    command = <<"echo $DOCKER_PASSWORD | docker login --username $DOCKER_USERNAME --password-stdin">>
IsEcrLogin(command) ==
    command = <<"aws ecr get-login-password --region $AWS_DEFAULT_REGION | docker login --username AWS --password-stdin $ACCOUNT_ID.dkr.ecr.$AWS_DEFAULT_REGION.amazonaws.com">>

C19_PhaseOrder ==
    LET spec == stack.buildSpec
        install == OrElse(stack.props.installCommands, <<>>)
        preBuild == OrElse(stack.props.preBuildCommands, <<>>)
        script == Script(spec)
        n == Len(spec.pre_build)
    IN  /\ Tail(spec.install) = install
        /\ SubSeq(spec.pre_build, 1, Len(preBuild)) = preBuild
        /\ IsEcrLogin(spec.pre_build[n])
        /\ \A i \in 1..n : IsEcrLogin(spec.pre_build[i]) => i = n
        /\ \A i \in 1..n : IsDockerHubLogin(spec.pre_build[i]) =>
               Len(preBuild) < i /\ i < n
        /\ IsSome(stack.props.dockerLoginSecretArn) <=>
               \E i \in 1..n : IsDockerHubLogin(spec.pre_build[i])
        /\ \A i, j \in 1..Len(script) :
               /\ (IsEcrLogin(script[i]) /\ IsBuild(script[j])) => i < j
               /\ (IsBuild(script[i]) /\ IsPush(script[j])) => i < j
        /\ \E i \in 1..Len(spec.build) : IsBuild(spec.build[i])
        /\ \E i \in 1..Len(spec.post_build) : IsPush(spec.post_build[i])
        /\ \A i \in 1..Len(script) :
               IsPush(script[i]) => i > Len(script) - Len(spec.post_build)
        /\ PushTag(spec) = BuildTag(spec)
        /\ BuildTag(spec) = stack.imageTag

\* A second synthesis with a login secret and two custom commands in each of
\* the install and pre_build phases.
C19_Witness ==
    /\ nextUuid = 4
    /\ IsSome(stack.props.dockerLoginSecretArn)
    /\ IsSome(stack.props.installCommands)
    /\ IsSome(stack.props.preBuildCommands)
    /\ Len(stack.props.installCommands[1]) = 2
    /\ stack.props.installCommands[1][1] # stack.props.installCommands[1][2]
    /\ Len(stack.props.preBuildCommands[1]) = 2
    /\ stack.props.preBuildCommands[1][1] # stack.props.preBuildCommands[1][2]
    /\ Len(stack.buildSpec.pre_build) = 12

----------------------------------------------------------------------------
(* The deployments, as the Orchestration Adapter drives them.              *)

Statuses(polls) == [i \in 1..Len(polls) |-> polls[i].status]
Answers(polls) == [i \in 1..Len(polls) |-> polls[i].answer]

(* C15: a deployment whose Trigger Step started one execution and whose    *)
(* polls saw it IN_PROGRESS, IN_PROGRESS and then SUCCEEDED made exactly   *)
(* one start-execution call, was answered false, false and true, is        *)
(* complete, and both artifact handles name the imageTag the construct     *)
(* fixed, which is the tag the build and push commands name.               *)
C15_EndToEnd ==
    (/\ workflow.requestType \in {"Create", "Update"}
     /\ workflow.started = 1
     /\ Statuses(workflow.polls) = <<"IN_PROGRESS", "IN_PROGRESS", "SUCCEEDED">>) =>
        /\ workflow.startCalls = 1
        /\ Answers(workflow.polls) = <<"false", "false", "true">>
        /\ workflow.phase = "complete"
        /\ workflow.containerImage = stack.imageTag
        /\ workflow.dockerImageCode = stack.imageTag
        /\ PushTag(stack.buildSpec) = stack.imageTag

\* The first deployment (buildArgs {ENV: "test"}, no login secret), polled
\* three times: the third poll completed it.
C15_Witness ==
    /\ workflow.requestType = "Create"
    /\ workflow.started = 1
    /\ Statuses(workflow.polls) = <<"IN_PROGRESS", "IN_PROGRESS", "SUCCEEDED">>
    /\ workflow.phase = "complete"
    /\ workflow.containerImage = "uuid-1"
    /\ stack.props.buildArgs = Some(<< << <<"ENV">>, <<"test">> >> >>)
    /\ last.handler = "isComplete"

(* C16: every deployment carries a fresh Trigger token, so the resource's  *)
(* properties differ from those deployed and the adapter issues a Create   *)
(* or Update event; and every deployment that gets past the Trigger Step   *)
(* has started exactly one new execution.                                  *)
C16_EveryDeploymentStartsOneBuild ==
    /\ (workflow.phase = "deploying" /\ IsSome(workflow.deployed)) =>
           workflow.deployed[1].Trigger # stack.properties.Trigger
    /\ workflow.phase \in {"polling", "complete"} =>
           /\ workflow.requestType \in {"Create", "Update"}
           /\ workflow.startCalls = 1
           /\ workflow.started = 1

(* C17: when a deployment is complete, the containerImage handle and the   *)
(* dockerImageCode handle name one and the same tag: the ImageTag the      *)
(* Completion Poller reported in the poll that completed the deployment,   *)
(* never a literal tag such as latest.                                     *)
C17_HandlesResolved ==
    (workflow.phase = "complete" /\ workflow.requestType \in {"Create", "Update"}) =>
        /\ workflow.containerImage = workflow.dockerImageCode
        /\ workflow.containerImage = Attribute(workflow.data, "ImageTag")
        /\ workflow.containerImage \notin {"latest", Undefined}
        /\ stack.containerImage.tag.kind = "GetAtt"
        /\ stack.dockerImageCode.tagOrDigest.kind = "GetAtt"

C17_CompletingPoll ==
    (workflow.phase = "polling" /\ workflow'.phase = "complete") =>
        /\ last'.handler = "isComplete"
        /\ workflow'.containerImage = Attribute(last'.result.Data, "ImageTag")
        /\ workflow'.dockerImageCode = Attribute(last'.result.Data, "ImageTag")

C17_HandlesFromReportedTag == []C17_HandlesResolved /\ [][C17_CompletingPoll]_vars

\* The second deployment is complete: both handles name its tag, not the
\* first deployment's.
C17_Witness ==
    /\ workflow.phase = "complete"
    /\ workflow.requestType \in {"Create", "Update"}
    /\ nextUuid = 4
    /\ workflow.containerImage = "uuid-3"
    /\ workflow.dockerImageCode = "uuid-3"

----------------------------------------------------------------------------
(* A request that names no job.                                            *)

NoJobIdentifier(event) == event.ResourceProperties.ProjectName = Undefined

(* C21: a handler invoked with a request whose properties name no job      *)
(* raises at once, before any call to the Job Runner: the Completion       *)
(* Poller for every request, the Trigger Step for a Create or Update,      *)
(* which sends no StartBuildCommand without a project name.                *)
C21_MissingJobIdRaisesFirst ==
    /\ (last.handler = "isComplete" /\ NoJobIdentifier(last.event)) =>
           /\ last.result.kind = "throw"
           /\ last.calls = <<>>
    /\ (Triggered({"Create", "Update"}) /\ NoJobIdentifier(last.event)) =>
           /\ last.result.kind = "throw"
           /\ last.calls = <<>>

----------------------------------------------------------------------------
(* How often the last invocation sent a command.                           *)

Count(command) ==
    Cardinality({i \in 1..Len(last.calls) : last.calls[i].command = command})

(* C22: no handler sends a command a second time, whatever the answers:    *)
(* a Trigger Step invocation sends at most one StartBuildCommand and       *)
(* nothing else; a poll sends at most one ListBuildsForProjectCommand, one *)
(* BatchGetBuildsCommand and one GetLogEventsCommand, and nothing else.    *)
C22_NoRetries ==
    /\ last.handler = "onEvent" =>
           /\ Count("StartBuildCommand") <= 1
           /\ Len(last.calls) = Count("StartBuildCommand")
    /\ last.handler = "isComplete" =>
           /\ Count("ListBuildsForProjectCommand") <= 1
           /\ Count("BatchGetBuildsCommand") <= 1
           /\ Count("GetLogEventsCommand") <= 1
           /\ Count("StartBuildCommand") = 0
           /\ Len(last.calls) <= 3

\* A poll whose log fetch failed: three calls were sent, each once.
C22_Witness ==
    /\ last.handler = "isComplete"
    /\ last.fault = "GetLogEventsCommand"
    /\ Len(last.calls) = 3

----------------------------------------------------------------------------
(* The Docker Hub login of the build and the grant that it needs.          *)

IsSecretRead(command) ==
    /\ Len(command) = 3
    /\ command[1] \in
           {"DOCKER_USERNAME=$(aws secretsmanager get-secret-value --secret-id ",
            "DOCKER_PASSWORD=$(aws secretsmanager get-secret-value --secret-id "}
IsSkipMessage(command) ==
    command = <<"echo \"No Docker credentials. Skipping Docker Hub login.\"">>

\* The secrets the script reads, and the statements of the role's policy that
\* allow reading a secret.
SecretsRead(script) ==
    {script[i][2] : i \in {j \in 1..Len(script) : IsSecretRead(script[j])}}
SecretGrants(policy) ==
    {policy[i] : i \in {j \in 1..Len(policy) :
                            "secretsmanager:GetSecretValue" \in policy[j].actions}}

(* C23: with a dockerLoginSecretArn the script reads that secret and logs  *)
(* in to Docker Hub, prints no skip message, and the role's policy allows  *)
(* secretsmanager:GetSecretValue on exactly that ARN; without one the      *)
(* script holds the skip message, reads no secret and does not log in, and *)
(* the policy allows no secret to be read.                                 *)
C23_LoginAndGrantIffSecret ==
    LET arn == stack.props.dockerLoginSecretArn
        script == Script(stack.buildSpec)
        LogsIn == \E i \in 1..Len(script) : IsDockerHubLogin(script[i])
        Skips == \E i \in 1..Len(script) : IsSkipMessage(script[i])
    IN  /\ IsSome(arn) =>
               /\ SecretsRead(script) = {arn[1]}
               /\ LogsIn /\ ~Skips
               /\ SecretGrants(stack.rolePolicy) =
                      {[actions |-> {"secretsmanager:GetSecretValue"},
                        resources |-> {arn[1]}]}
        /\ ~IsSome(arn) =>
               /\ SecretsRead(script) = {}
               /\ ~LogsIn /\ Skips
               /\ SecretGrants(stack.rolePolicy) = {}

\* The construct synthesised again with the secret of the test.
C23_Witness ==
    /\ stack.props.dockerLoginSecretArn =
           Some("arn:aws:secretsmanager:us-east-1:123456789012:secret:DockerLoginSecret")
    /\ Len(stack.rolePolicy) = 2
    /\ nextUuid = 4

----------------------------------------------------------------------------
(* C24: in a run of deployments one after the other, when the poll of a    *)
(* Create or Update deployment reports completion with a tag, the Trigger  *)
(* Step of that same deployment has started an execution, that execution   *)
(* is the job's most recent one and is SUCCEEDED, and the tag reported is  *)
(* the tag that deployment's build spec pushes; completion never rests on  *)
(* an execution that an earlier deployment started.                        *)
C24_CompletionRestsOnOwnBuild ==
    (/\ workflow.phase = "complete"
     /\ workflow.requestType \in {"Create", "Update"}
     /\ last.handler = "isComplete") =>
        /\ workflow.started = 1
        /\ HasBuild /\ Latest.buildStatus = Succeeded
        /\ Attribute(last.result.Data, "ImageTag") = PushTag(stack.buildSpec)

----------------------------------------------------------------------------
(* The polling loop of a deployment.                                       *)

\* The deployment's Trigger Step started an execution and the adapter polls.
PollingOwnBuild == workflow.phase = "polling" /\ workflow.started = 1

\* The loop is over: a poll returned IsComplete = true or raised.
PollingEnded ==
    /\ workflow.phase \in {"complete", "failed"}
    /\ last.handler = "isComplete"
    /\ Answer(last.result) \in {"true", "throw"}

\* A poll that finds the execution at a terminal status ends the loop.
C25_TerminalPollEnds ==
    (/\ PollingOwnBuild
     /\ Latest.buildStatus \in TerminalStatuses
     /\ last'.handler = "isComplete"
     /\ last' # last) => workflow'.phase \in {"complete", "failed"}

(* C25: when the deployment's Trigger Step has started an execution, the   *)
(* Job Runner carries it on to a terminal status and the adapter keeps     *)
(* polling, the polling loop ends: some poll returns IsComplete = true or  *)
(* raises; and no poll that finds the execution terminal asks for another. *)
C25_PollingEnds ==
    /\ PollingOwnBuild ~> PollingEnded
    /\ [][C25_TerminalPollEnds]_vars

\* The adapter has polled a full round and polls on: the poll that began the
\* next round found the execution in progress.
C25_Witness ==
    /\ PollingOwnBuild
    /\ last.handler = "isComplete"
    /\ last.nth = MaxPolls
    /\ Len(workflow.polls) = 1
    /\ Latest.buildStatus = InProgress

----------------------------------------------------------------------------
(* The decisions of the two variants of the Completion Poller.             *)

IsPoller(handler) == handler \in {"isComplete", "isCompleteHandler"}

(* C26: on Create or Update a poll (of either variant of the poller)       *)
(* returns IsComplete = true only when the build it inspected, the job's   *)
(* most recent, is SUCCEEDED and every call was answered; for every other  *)
(* status and for every failed call it returns false or raises.            *)
C26_CompleteOnlyOnSucceeded ==
    (/\ IsPoller(last.handler)
     /\ last.event.RequestType \in {"Create", "Update"}
     /\ last.result.kind = "return"
     /\ last.result.IsComplete) =>
        /\ HasBuild /\ Latest.buildStatus = Succeeded
        /\ last.fault = "none"
        /\ Len(last.calls) = 2
        /\ \A i \in 1..Len(last.calls) : last.calls[i].ok

\* The current poller reports an Update complete: the build is SUCCEEDED.
C26_Witness ==
    /\ last.handler = "isComplete"
    /\ last.event.RequestType = "Update"
    /\ last.result.kind = "return"
    /\ last.result.IsComplete
    /\ Latest.buildStatus = Succeeded

----------------------------------------------------------------------------
\* The last poll raised because the job has no execution at all.
NoExecutionFound ==
    /\ last.handler = "isComplete"
    /\ last.result.kind = "throw"
    /\ last.result.message = <<"No builds found for project: ", ProjectName>>

----------------------------------------------------------------------------
(* The remote calls of one poll, in the order they were sent.              *)

PollCommands ==
    <<"ListBuildsForProjectCommand", "BatchGetBuildsCommand", "GetLogEventsCommand">>

(* C28: the calls of a poll on Create or Update are, in this order, the    *)
(* listing of the builds (newest first, one result), the details of        *)
(* exactly the build the list holds first, the job's most recent, and, at  *)
(* most, the log fetch; the Log Store is called only when that build is    *)
(* FAILED, FAULT, STOPPED or TIMED_OUT and names both its log group and    *)
(* its log stream, for which the fetch asks.                               *)
C28_CallOrder ==
    (/\ last.handler = "isComplete"
     /\ last.event.RequestType \in {"Create", "Update"}) =>
        /\ Len(last.calls) <= 3
        /\ \A i \in 1..Len(last.calls) : last.calls[i].command = PollCommands[i]
        /\ Len(last.calls) >= 1 =>
               /\ last.calls[1].params.sortOrder = "DESCENDING"
               /\ last.calls[1].params.maxResults = 1
        /\ Len(last.calls) >= 2 =>
               /\ last.calls[1].ok
               /\ HasBuild
               /\ last.calls[2].params.ids = <<Len(builds)>>
        /\ Len(last.calls) = 3 =>
               /\ last.calls[2].ok
               /\ Latest.buildStatus \in {"FAILED", "FAULT", "STOPPED", "TIMED_OUT"}
               /\ Latest.logs.groupName # Undefined
               /\ Latest.logs.streamName # Undefined
               /\ last.calls[3].params.logGroupName = Latest.logs.groupName
               /\ last.calls[3].params.logStreamName = Latest.logs.streamName

\* A poll that made the three calls; the project holds an earlier build whose
\* status is another.
C28_Witness ==
    /\ last.handler = "isComplete"
    /\ Len(last.calls) = 3
    /\ Len(builds) = 2
    /\ builds[1].buildStatus = Succeeded

----------------------------------------------------------------------------
\* What the other variant of the poller decides for the request and the
\* services' answers of the last poll.
OtherVariant ==
    IF last.handler = "isComplete"
    THEN isCompleteHandler(last.event, builds, logOrder, last.fault)
    ELSE isComplete(last.event, stack.environment, builds, logOrder, last.fault)

(* C29: for every request type, every status of the most recent build and  *)
(* every failed call, the historical and the current poller decide alike:  *)
(* both return IsComplete = false, both return IsComplete = true or both   *)
(* raise, and they send the same calls.                                    *)
C29_VariantsDecideAlike ==
    IsPoller(last.handler) =>
        /\ Answer(last.result) = Answer(OtherVariant.result)
        /\ last.calls = OtherVariant.calls

----------------------------------------------------------------------------
(* The handlers keep nothing from one invocation to the next.              *)

\* The result and the calls of the last invocation are those its event, the
\* function's environment and the services' present state and answers give.
C30_Determined ==
    /\ last.handler = "isComplete" =>
           LET out == isComplete(last.event, stack.environment, builds, logOrder,
                                 last.fault)
           IN  last.result = out.result /\ last.calls = out.calls
    /\ last.handler = "onEvent" =>
           LET out == onEvent(last.event, last.fault)
           IN  last.result = out.result /\ last.calls = out.calls

\* A handler invoked twice in a row with the same event, the services
\* answering alike, gives the same result and sends the same calls.
C30_RepeatStep ==
    (/\ last.handler \in {"onEvent", "isComplete"}
     /\ last'.handler = last.handler
     /\ last'.event = last.event
     /\ last'.fault = last.fault) =>
        /\ last'.result = last.result
        /\ last'.calls = last.calls

====
